---- MODULE Spec2Model ----
(***************************************************************************)
(* Download orchestration of SpotifyBurner (spotify_burner.py):            *)
(* download_tracks (bulk album attempt, fall-back to per-track dispatch    *)
(* on the ThreadPoolExecutor, result collection, overall result) and       *)
(* _download_single_track (the per-track retry loop).                      *)
(*                                                                         *)
(* The main thread and the pool workers are interleaved at their blocking  *)
(* points: reading the output of an external process until it exits,       *)
(* time.sleep(2) between attempts, and future.result().                    *)
(*                                                                         *)
(* Around that job: the signal handler installed by                        *)
(* setup_signal_handlers, the direct mode of run(), and the configuration  *)
(* (load_config, __init__, the settings menu, save_config). Each has a     *)
(* specification of its own below; the observer variables record what a    *)
(* property needs to remember and are read by no action of the program.    *)
(***************************************************************************)
EXTENDS Integers, Sequences, FiniteSets, TLC

\* ---- bounds of the model ------------------------------------------------
MaxTracks == 3        \* longest track_urls list of a job
MaxThreads == 2       \* largest max_threads value (config, --threads, settings)
MaxOrphans == 1       \* processes abandoned by a raising read that are still alive
MaxRuns == 2          \* jobs recorded in `history`
MaxLines == 1         \* longest output (in lines) of one external process
MaxPlaylists == 2     \* most playlists the TUI shows / hands to process_downloads
MaxItems == 2         \* most tracks of one playlist, most liked songs
MaxRefresh == 2       \* most action_refresh_data tasks in flight at once

\* ---- program constants --------------------------------------------------
MAX_RETRIES == 3

Tracks == 1..MaxTracks
ExitCodes == {0, 1}                       \* 0 = success, 1 = any non-zero code
PopenOutcomes == {"spawned", "oserror"}   \* subprocess.Popen returns or raises

\* Lines an external process may print (after `line.strip()`), told apart by
\* the three substring tests the read loop makes.
Lines == {"Downloaded 50%", "ERROR: failed"}
ProgressLines == {"Downloaded 50%"}     \* `"Downloaded" in line and "%" in line`
ErrorLines == {"ERROR: failed"}         \* `"ERROR" in line or "Error" in line`
Outputs == UNION {[1..k -> Lines] : k \in 0..MaxLines}

\* The same with the blank line (`"\n"` is appended as "" after the strip)
\* and one line more, so that a line can follow an error line.
DetailLines == Lines \cup {""}
DetailOutputs == UNION {[1..k -> DetailLines] : k \in 0..(MaxLines + 1)}

VARIABLES
    max_threads,             \* self.max_threads
    pool_size,               \* self.executor._max_workers
    pc,                      \* position of the main thread
    num_tracks,              \* len(track_urls) of the current job
    album_url,               \* TRUE iff an album URL was passed
    dir_created,             \* os.makedirs(output_dir) has returned in this job
    album_retry,             \* retry_count of the album loop
    album_download_success,  \* the album process exited with code 0
    bulk_calls,              \* album Popen calls made in this job
    submitted,               \* len(download_futures)
    st,                      \* per track: state of its future / worker
    retry_count,             \* per track: retry_count of _download_single_track
    attempts,                \* per track: Popen calls made for it
    collected,               \* futures consumed by the collection loop
    successful_downloads,
    failed_tracks,           \* sequence of track indices
    result,                  \* return value of download_tracks
    orphans,                 \* external processes left running by a raising read
    history,                 \* observer: the jobs that have returned, in order
    album_codes,             \* observer: exit codes of the album processes
    codes,                   \* observer, per track: exit codes of its processes
    error,                   \* per track: result["error"] of its worker
    fail_order,              \* observer: tracks in the order their workers failed
    output,                  \* observer, per track: output_lines of its last process
    abandoned,               \* observer, per track: its processes left running
    run_pc,                  \* run(): the call it is about to make
    query,                   \* run(): TRUE iff a query was passed (direct mode)
    selection,               \* run(): selection["type"], "none" if no selection
    calls,                   \* run(): per callee, how its call ended
    exit_code,               \* run(): the value returned, -1 before it returns
    cfg_file,                \* content of CONFIG_FILE
    ctor,                    \* how the latest SpotifyBurner() ended
    config,                  \* self.config of the latest instance
    app,                     \* the nine settings of the latest instance
    saved,                   \* observer: the settings written by save_config
    reloaded,                \* observer: built after the last save, unchanged since
    loaded_kind,             \* observer: kind of file the latest instance read
    pd_pc,                   \* process_downloads: position
    pd_playlists,            \* process_downloads: selected_playlist_objects
    pd_liked,                \* process_downloads: liked_songs_object
    pd_p,                    \* process_downloads: index of the current playlist
    pd_t,                    \* process_downloads: index of the current track
    pd_calls,                \* observer: the download_track calls made, in order
    pd_last,                 \* observer: how the latest download attempt ended
    mounted,                 \* TUI: on_mount has run
    listed,                  \* TUI: the playlist and liked-songs checkboxes are shown
    selected_playlists,      \* TUI: self.selected_playlists
    selected_liked_songs,    \* TUI: self.selected_liked_songs
    btn_download_disabled,   \* TUI: #btn-download.disabled
    btn_refresh_disabled,    \* TUI: #btn-refresh.disabled
    pump,                    \* TUI: what the app's message pump is awaiting
    refresh_tasks            \* TUI: action_refresh_data tasks in flight

vars == <<max_threads, pool_size, pc, num_tracks, album_url, dir_created,
          album_retry,
          album_download_success, bulk_calls, submitted, st, retry_count,
          attempts, collected, successful_downloads, failed_tracks, result,
          orphans, history, album_codes, codes, error, fail_order, output,
          abandoned, run_pc, query, selection, calls, exit_code,
          cfg_file, ctor, config, app, saved, reloaded, loaded_kind,
          pd_pc, pd_playlists, pd_liked, pd_p, pd_t, pd_calls, pd_last,
          mounted, listed, selected_playlists, selected_liked_songs,
          btn_download_disabled, btn_refresh_disabled, pump, refresh_tasks>>

jobVars == <<num_tracks, album_url, dir_created>>
albumVars == <<album_retry, album_download_success, bulk_calls>>
trackVars == <<st, retry_count, attempts>>
collectVars == <<collected, successful_downloads, failed_tracks>>
poolVars == <<max_threads, pool_size>>
obsVars == <<history, album_codes, codes, error, fail_order, output,
             abandoned>>
runVars == <<run_pc, query, selection, calls, exit_code>>
cfgVars == <<cfg_file, ctor, config, app, saved, reloaded, loaded_kind>>
pdVars == <<pd_pc, pd_playlists, pd_liked, pd_p, pd_t, pd_calls, pd_last>>
tuiVars == <<mounted, listed, selected_playlists, selected_liked_songs,
             btn_download_disabled, btn_refresh_disabled, pump,
             refresh_tasks>>
uiVars == <<pdVars, tuiVars>>
sideVars == <<runVars, cfgVars, uiVars>>
coreVars == <<pc, jobVars, albumVars, submitted, trackVars, collectVars,
              result, orphans>>
appVars == <<poolVars, obsVars, sideVars>>

\* ---- pure helpers -------------------------------------------------------

\* `if not track_urls:`
EmptyJob(n) == n = 0

\* `if album_url and len(track_urls) > 1:`
UseBulkAnySize(album, n) == album /\ n > 0

UseBulk(album, n) == album /\ n > 1

\* How download_tracks starts: the empty check comes first, then the choice
\* between the album attempt and per-track dispatch.
StrategyForAlbumFirst(n, album) ==
    IF album THEN "bulk" ELSE IF EmptyJob(n) THEN "empty" ELSE "pertrack"

StrategyFor(n, album) ==
    IF EmptyJob(n) THEN "empty"
    ELSE IF UseBulk(album, n) THEN "bulk" ELSE "pertrack"

\* `if retry_count >= MAX_RETRIES - 1:` of the album loop
AlbumLastRetryEarly(rc) == rc >= MAX_RETRIES - 2

AlbumLastRetry(rc) == rc >= MAX_RETRIES - 1

\* `if retry_count >= max_retries - 1:` of _download_single_track
LastRetryEarly(rc) == rc >= MAX_RETRIES - 2

LastRetry(rc) == rc >= MAX_RETRIES - 1

\* `while not album_download_success and retry_count < MAX_RETRIES:`
AlbumLoopContinuesOnce(success, rc) == ~success /\ rc < 1

AlbumLoopContinues(success, rc) == ~success /\ rc < MAX_RETRIES

\* `retry_count += 1` before `time.sleep(2)` and `continue`
NextRetryStuck(rc) == rc

NextRetry(rc) == rc + 1

\* the three return statements that close the collection loop
OverallResultAllOrNothing(s, n) == IF s = n THEN "True" ELSE "False"

OverallResultStrict(s, n) ==
    IF s = n THEN "True"
    ELSE IF s > 0 THEN (IF 2 * s > n THEN "True" ELSE "False")
    ELSE "False"

OverallResult(s, n) ==
    IF s = n THEN "True"
    ELSE IF s > 0 THEN (IF 2 * s >= n THEN "True" ELSE "False")
    ELSE "False"

\* `os.makedirs(output_dir, exist_ok=True)` raises and nothing catches it
DirFailureIgnored(dirOk) == FALSE

DirFailureStops(dirOk) == ~dirOk

\* `if return_code == 0:` of both read loops: the output is not consulted
AttemptSucceededNever(code, out) == FALSE

AttemptSucceededQuietly(code, out) ==
    code = 0 /\ \A k \in 1..Len(out) : out[k] \notin ErrorLines

AttemptSucceeded(code, out) == code = 0

\* "Compile error message from output": the last error line, else the last
\* output line, else "Unknown error"
ErrorMessageLastLine(out) ==
    IF out # <<>> THEN out[Len(out)] ELSE "Unknown error"

ErrorMessage(out) ==
    LET error_lines == SelectSeq(out, LAMBDA l : l \in ErrorLines) IN
    IF error_lines # <<>> THEN error_lines[Len(error_lines)]
    ELSE IF out # <<>> THEN out[Len(out)]
    ELSE "Unknown error"

\* position after `return_code == 0` of the album process: `return True`
AfterAlbumSuccessFallThrough == "submit"

AfterAlbumSuccess == "done"

\* `except Exception` of the collection loop: the request is recorded failed
RecordRaisedDropped(failed, i) == failed

RecordRaised(failed, i) == Append(failed, i)

\* `failed_tracks.append(...)` for a result whose "success" is false
RecordFailedFirst(failed, i) == <<i>> \o failed

RecordFailed(failed, i) == Append(failed, i)

\* the collection loop goes on to the next future whatever the outcome was
AfterCollectHalting(i, n, outcome) ==
    IF outcome = "raised" THEN "raised"
    ELSE IF i = n THEN "report" ELSE "collect"

AfterCollect(i, n, outcome) == IF i = n THEN "report" ELSE "collect"

\* workers of the pool that hold a task
Busy == Cardinality({i \in Tracks : st[i] \in {"running", "sleep"}})

\* external downloader processes started and not yet exited
InFlight ==
    Cardinality({i \in Tracks : st[i] = "running"})
    + (IF pc = "bulk" THEN 1 ELSE 0) + orphans

NoTracks == [i \in Tracks |-> "none"]
Zeros == [i \in Tracks |-> 0]
NoCodes == [i \in Tracks |-> <<>>]
NoErrors == [i \in Tracks |-> "none"]

\* what `history` keeps of a job that has returned
JobRecord ==
    [tracks |-> num_tracks, album |-> album_url, result |-> result,
     attempts |-> attempts]

\* ---- run(): the callees of direct mode and how a call can end -------------
RunCallees ==
    {"initialize_spotify", "search_music", "display_music_info",
     "confirm_download", "download_tracks", "enhance_download_metadata",
     "confirm_burn", "burn_to_disc", "show_manual_burn_instructions",
     "show_main_menu"}
CallEnds == {"not_called", "true", "false", "raised", "interrupted"}
NoCalls == [f \in RunCallees |-> "not_called"]
SelectionTypes == {"track", "album", "playlist"}

\* `if not self.download_tracks(tracks, output_dir, album_url):`
DownloadFailedNever(res) == FALSE

DownloadFailed(res) == res # "True"

\* ---- configuration: Python values, their JSON text and the settings -------
PyNone == [type |-> "NoneType", val |-> "None"]
PyStr(x) == [type |-> "str", val |-> x]
PyInt(n) == [type |-> "int", val |-> ToString(n)]
PyBool(b) == [type |-> "bool", val |-> IF b THEN "True" ELSE "False"]
PyFloat(x) == [type |-> "float", val |-> x]
EmptyDict == [k \in {} |-> PyNone]

\* json.dump of a scalar: the JSON token written for a Python value
DumpValue(v) ==
    CASE v.type = "NoneType" -> [json |-> "null", text |-> "null"]
      [] v.type = "bool" ->
            [json |-> "literal",
             text |-> IF v.val = "True" THEN "true" ELSE "false"]
      [] v.type = "int" -> [json |-> "number", text |-> v.val]
      [] v.type = "float" -> [json |-> "real", text |-> v.val]
      [] v.type = "str" -> [json |-> "string", text |-> v.val]

\* json.load of a scalar: the Python value read from a JSON token (a number
\* with a fraction part, "real", becomes a float)
LoadValue(j) ==
    CASE j.json = "null" -> PyNone
      [] j.json = "literal" ->
            [type |-> "bool",
             val |-> IF j.text = "true" THEN "True" ELSE "False"]
      [] j.json = "number" -> [type |-> "int", val |-> j.text]
      [] j.json = "real" -> [type |-> "float", val |-> j.text]
      [] j.json = "string" -> [type |-> "str", val |-> j.text]

DictKeys == {"burn_settings", "metadata_settings"}
DumpDict(d) == [k \in DOMAIN d |-> DumpValue(d[k])]
LoadDict(o) == [k \in DOMAIN o |-> LoadValue(o[k])]

\* the JSON object save_config writes / the dict json.load returns for it
DumpConfig(c) ==
    [k \in DOMAIN c |->
        IF k \in DictKeys THEN DumpDict(c[k]) ELSE DumpValue(c[k])]
LoadObject(o) ==
    [k \in DOMAIN o |->
        IF k \in DictKeys THEN LoadDict(o[k]) ELSE LoadValue(o[k])]

\* dict.get(key, default) and {**defaults, **user}
Get(d, k, default) == IF k \in DOMAIN d THEN d[k] ELSE default
Merge(defaults, user) ==
    [k \in DOMAIN defaults \cup DOMAIN user |->
        IF k \in DOMAIN user THEN user[k] ELSE defaults[k]]

BurnDefaults ==
    [cdburnerxp_path |-> PyStr("C:/Program Files/CDBurnerXP/cdbxpcmd.exe"),
     speed |-> PyNone, verify |-> PyBool(TRUE), eject |-> PyBool(TRUE)]
MetaDefaults ==
    [save_album_art |-> PyBool(TRUE), embed_lyrics |-> PyBool(FALSE),
     overwrite_metadata |-> PyBool(TRUE)]
Defaults ==
    [download_dir |-> PyStr("~/Music/SpotifyDownloads"),
     dvd_drive |-> PyNone,
     max_threads |-> PyInt(3),
     audio_format |-> PyStr("mp3"),
     bitrate |-> PyStr("128k"),
     theme |-> PyStr("default"),
     burn_method |-> PyStr("windows_native"),
     burn_settings |-> BurnDefaults,
     metadata_settings |-> MetaDefaults]

\* apply_theme: an unknown theme name becomes "default"
Themes == {"default", "dark", "light", "modern", "neon", "spotify"}
ApplyTheme(theme) ==
    IF theme.type = "str" /\ theme.val \in Themes THEN theme
    ELSE PyStr("default")

\* the attributes __init__ sets from self.config
FromConfig(cfg) ==
    [download_dir |-> Get(cfg, "download_dir", Defaults.download_dir),
     dvd_drive |-> Get(cfg, "dvd_drive", PyNone),
     max_threads |-> Get(cfg, "max_threads", PyInt(3)),
     audio_format |-> Get(cfg, "audio_format", PyStr("mp3")),
     bitrate |-> Get(cfg, "bitrate", PyStr("128k")),
     theme |-> ApplyTheme(Get(cfg, "theme", PyStr("default"))),
     burn_method |-> Get(cfg, "burn_method", PyStr("windows_native")),
     burn_settings |->
         Merge(BurnDefaults, Get(cfg, "burn_settings", EmptyDict)),
     metadata_settings |-> Get(cfg, "metadata_settings", MetaDefaults)]

\* the integer an int value stands for
IntOf(v) == CHOOSE n \in -1..10 : ToString(n) = v.val

\* floats above zero among those a config file of the model holds
PositiveFloats == {"0.5"}

\* `ThreadPoolExecutor(max_workers=self.max_threads)`: None gives the default
\* size, `if max_workers <= 0: raise ValueError`, and the comparison itself
\* raises TypeError for a string
PoolRaises(v) ==
    CASE v.type = "NoneType" -> FALSE
      [] v.type = "int" -> IntOf(v) <= 0
      [] v.type = "float" -> v.val \notin PositiveFloats
      [] v.type = "bool" -> v.val = "False"
      [] v.type = "str" -> TRUE

\* What CONFIG_FILE can hold: nothing (no file), text that is not JSON, bytes
\* that are not text in the locale's encoding, JSON that is not an object
\* (e.g. `[]`), or a JSON object.
DamagedKinds == {"missing", "syntax_error", "undecodable", "not_object"}
FileKinds == DamagedKinds \cup {"object"}
FileOf(kind) == [kind |-> kind, obj |-> EmptyDict]
ObjectFile(o) == [kind |-> "object", obj |-> o]

\* load_config: a missing file gives {}, json.JSONDecodeError is caught and
\* gives {}; the UnicodeDecodeError of the read is not caught, and JSON that
\* is not an object is returned as it is (ends = "other": not a dict)
LoadConfig(file) ==
    CASE file.kind = "missing" -> [ends |-> "dict", value |-> EmptyDict]
      [] file.kind = "syntax_error" -> [ends |-> "dict", value |-> EmptyDict]
      [] file.kind = "undecodable" -> [ends |-> "raised", value |-> EmptyDict]
      [] file.kind = "not_object" -> [ends |-> "other", value |-> EmptyDict]
      [] file.kind = "object" ->
            [ends |-> "dict", value |-> LoadObject(file.obj)]

\* the values the settings menu and the command line can give a setting
SettingChoices ==
    [dvd_drive |-> {PyNone, PyStr("E:")},
     max_threads |-> {PyInt(n) : n \in 1..MaxThreads},
     theme |-> {PyStr("default"), PyStr("dark")}]
BurnChoices ==
    [speed |-> {PyNone, PyStr("4")}]

\* values of "max_threads" in a config file edited by hand: 0, null, 0.5
ThreadTokens ==
    {DumpValue(PyInt(0)), DumpValue(PyNone), DumpValue(PyFloat("0.5"))}

\* a config file written by hand, as the test suite does
HandWritten ==
    ObjectFile([download_dir |-> DumpValue(PyStr("D:/Music")),
                dvd_drive |-> DumpValue(PyStr("E:"))])
\* What process_downloads is handed. A playlist object is valid when it is
\* a dict with 'name' and 'id'; get_playlist_tracks returns its tracks or
\* raises; a track is valid when it has an id and a name.
TrackForms == {"valid", "invalid"}
TrackLists == UNION {[1..k -> TrackForms] : k \in 0..MaxItems}
InvalidPlaylist == [valid |-> FALSE, fetch |-> "ok", tracks |-> <<>>]
PlaylistForms ==
    {InvalidPlaylist}
    \cup {[valid |-> TRUE, fetch |-> "raises", tracks |-> <<>>]}
    \cup {[valid |-> TRUE, fetch |-> "ok", tracks |-> t] : t \in TrackLists}
PlaylistLists == UNION {[1..k -> PlaylistForms] : k \in 0..MaxPlaylists}

\* liked_songs_object: None, or a dict whose 'items' hold a track that is
\* valid, invalid, or valid with its .mp3 already in the Liked Songs folder
LikedItemForms == {"valid", "invalid", "exists"}
NoLiked == [present |-> FALSE, items |-> <<>>]
LikedForms ==
    {NoLiked}
    \cup {[present |-> TRUE, items |-> t] :
            t \in UNION {[1..k -> LikedItemForms] : k \in 0..MaxItems}}

\* how the body of the per-track `try:` ends: download_track returns True
\* or False, or an exception reaches `except Exception as download_error`
TrackOutcomes == {"True", "False", "raises"}

\* ids of the playlists the TUI lists
PlaylistIds == 1..MaxPlaylists

NoApp == EmptyDict
NotSaved == [valid |-> FALSE, attrs |-> NoApp]

TypeOK ==
    /\ max_threads \in 1..MaxThreads
    /\ pool_size \in 1..MaxThreads
    /\ pc \in {"idle", "bulk", "bulk_sleep", "submit", "collect", "report",
               "done", "raised", "exited"}
    /\ num_tracks \in 0..MaxTracks
    /\ album_url \in BOOLEAN
    /\ dir_created \in BOOLEAN
    /\ album_retry \in 0..MAX_RETRIES
    /\ album_download_success \in BOOLEAN
    /\ bulk_calls \in 0..(MAX_RETRIES + 1)
    /\ submitted \in 0..MaxTracks
    /\ st \in [Tracks -> {"none", "queued", "running", "sleep", "ok", "fail",
                          "raised", "retnone"}]
    /\ retry_count \in [Tracks -> 0..MAX_RETRIES]
    /\ attempts \in [Tracks -> 0..(MAX_RETRIES + 1)]
    /\ collected \in 0..MaxTracks
    /\ successful_downloads \in 0..MaxTracks
    /\ failed_tracks \in Seq(Tracks)
    /\ result \in {"unset", "True", "False"}
    /\ orphans \in 0..MaxOrphans
    /\ Len(history) \in 0..MaxRuns
    /\ Len(album_codes) \in 0..MAX_RETRIES
    /\ \A i \in Tracks : Len(codes[i]) \in 0..MAX_RETRIES
    /\ error \in [Tracks -> DetailLines \cup {"none", "Unknown error"}]
    /\ fail_order \in Seq(Tracks)
    /\ \A i \in Tracks : output[i] \in DetailOutputs
    /\ abandoned \in [Tracks -> 0..MaxOrphans]
    /\ run_pc \in RunCallees \cup {"idle", "returned"}
    /\ query \in BOOLEAN
    /\ selection \in SelectionTypes \cup {"none"}
    /\ calls \in [RunCallees -> CallEnds]
    /\ exit_code \in {-1, 0, 1}
    /\ cfg_file.kind \in FileKinds
    /\ ctor \in {"none", "ok", "raised"}
    /\ ctor = "ok" => DOMAIN app = DOMAIN Defaults
    /\ saved.valid \in BOOLEAN
    /\ reloaded \in BOOLEAN
    /\ loaded_kind \in FileKinds \cup {"none"}
    /\ pd_pc \in {"idle", "playlists", "liked", "finished", "raised"}
    /\ pd_playlists \in PlaylistLists
    /\ pd_liked \in LikedForms
    /\ pd_p \in 0..(MaxPlaylists + 1)
    /\ pd_t \in 0..MaxItems
    /\ pd_calls \in Seq((0..MaxPlaylists) \X (1..MaxItems))
    /\ pd_last \in TrackOutcomes \cup {"none"}
    /\ mounted \in BOOLEAN
    /\ listed \in BOOLEAN
    /\ selected_playlists \in SUBSET PlaylistIds
    /\ selected_liked_songs \in BOOLEAN
    /\ btn_download_disabled \in BOOLEAN
    /\ btn_refresh_disabled \in BOOLEAN
    /\ pump \in {"free", "download", "refresh"}
    /\ refresh_tasks \in 0..MaxRefresh

\* ---- SpotifyBurner.__init__ ---------------------------------------------
\* max_threads comes from the configuration (default 3) and the executor is
\* built from it, once.
Init ==
    /\ max_threads \in 1..MaxThreads
    /\ pool_size = max_threads
    /\ pc = "idle"
    /\ num_tracks = 0
    /\ album_url = FALSE
    /\ dir_created = FALSE
    /\ album_retry = 0
    /\ album_download_success = FALSE
    /\ bulk_calls = 0
    /\ submitted = 0
    /\ st = NoTracks
    /\ retry_count = Zeros
    /\ attempts = Zeros
    /\ collected = 0
    /\ successful_downloads = 0
    /\ failed_tracks = <<>>
    /\ result = "unset"
    /\ orphans = 0
    /\ history = <<>>
    /\ album_codes = <<>>
    /\ codes = NoCodes
    /\ error = NoErrors
    /\ fail_order = <<>>
    /\ output = NoCodes
    /\ abandoned = Zeros
    /\ run_pc = "idle"
    /\ query = FALSE
    /\ selection = "none"
    /\ calls = NoCalls
    /\ exit_code = -1
    /\ cfg_file = FileOf("missing")
    /\ ctor = "none"
    /\ config = EmptyDict
    /\ app = NoApp
    /\ saved = NotSaved
    /\ reloaded = FALSE
    /\ loaded_kind = "none"
    /\ pd_pc = "idle"
    /\ pd_playlists = <<>>
    /\ pd_liked = NoLiked
    /\ pd_p = 0
    /\ pd_t = 0
    /\ pd_calls = <<>>
    /\ pd_last = "none"
    /\ mounted = FALSE
    /\ listed = FALSE
    /\ selected_playlists = {}
    /\ selected_liked_songs = FALSE
    /\ btn_download_disabled = TRUE
    /\ btn_refresh_disabled = FALSE
    /\ pump = "free"
    /\ refresh_tasks = 0

\* ---- main(), run_direct_mode(), manage_settings() -------------------------
\* `app.max_threads = args.threads` / choice "5" of the settings menu: the
\* attribute changes, the executor built by __init__ is kept.
SetThreads(t) ==
    /\ pc = "idle"
    /\ max_threads' = t
    /\ UNCHANGED <<pool_size, obsVars, sideVars, pc, jobVars, albumVars,
                   submitted, trackVars, collectVars, result, orphans>>

\* ---- download_tracks: the album attempt ---------------------------------

\* one pass of the album loop body up to the first blocking read; rc is
\* retry_count, popen the outcome of subprocess.Popen
AlbumFailedNoFallBack(rc) ==
    IF AlbumLastRetry(rc)
    THEN /\ pc' = "report"
         /\ album_retry' = rc
    ELSE /\ pc' = "bulk_sleep"
         /\ album_retry' = rc + 1

AlbumFailed(rc) ==
    IF AlbumLastRetry(rc)
    THEN /\ pc' = "submit"
         /\ album_retry' = rc
    ELSE /\ pc' = "bulk_sleep"
         /\ album_retry' = NextRetry(rc)

AlbumAttempt(rc, popen) ==
    /\ bulk_calls' = bulk_calls + 1
    /\ IF popen = "spawned"
       THEN /\ pc' = "bulk"
            /\ album_retry' = rc
       ELSE AlbumFailed(rc)

\* entry of download_tracks up to its first blocking point
download_tracks(n, album, dirOk, popen) ==
    /\ pc = "idle"
    /\ num_tracks' = n
    /\ album_url' = album
    /\ UNCHANGED <<appVars, album_download_success, submitted, trackVars,
                   collectVars, orphans>>
    /\ LET strategy == StrategyFor(n, album) IN
       IF strategy = "empty"
       THEN /\ result' = "False"
            /\ pc' = "done"
            /\ dir_created' = FALSE
            /\ UNCHANGED <<album_retry, bulk_calls>>
       ELSE IF DirFailureStops(dirOk)
       THEN \* os.makedirs raises; nothing in download_tracks catches it
            /\ pc' = "raised"
            /\ dir_created' = FALSE
            /\ UNCHANGED <<album_retry, bulk_calls, result>>
       ELSE IF strategy = "bulk"
       THEN /\ AlbumAttempt(0, popen)
            /\ dir_created' = dirOk
            /\ UNCHANGED result
       ELSE /\ pc' = "submit"
            /\ dir_created' = dirOk
            /\ UNCHANGED <<album_retry, bulk_calls, result>>

\* the album process exits with `code` after printing `out`
AlbumExitWith(code, out) ==
    /\ pc = "bulk"
    /\ UNCHANGED <<jobVars, bulk_calls, submitted, trackVars, collectVars,
                   orphans>>
    /\ IF AttemptSucceeded(code, out)
       THEN /\ album_download_success' = TRUE
            /\ pc' = AfterAlbumSuccess
            /\ result' = IF AfterAlbumSuccess = "done" THEN "True" ELSE result
            /\ UNCHANGED album_retry
       ELSE /\ AlbumFailed(album_retry)
            /\ UNCHANGED <<album_download_success, result>>

\* the same, with the output left unobserved
AlbumExit(code) ==
    /\ AlbumExitWith(code, <<>>)
    /\ UNCHANGED appVars

\* the same, with the observer recording the exit code
AlbumExitObserved(code, out) ==
    /\ AlbumExitWith(code, out)
    /\ album_codes' = Append(album_codes, code)
    /\ UNCHANGED <<poolVars, sideVars, history, codes, error, fail_order,
                   output, abandoned>>

\* reading the album process's output raises (e.g. a decoding error): the
\* process is neither waited for nor killed, `except Exception` takes over
AlbumReadRaise ==
    /\ pc = "bulk"
    /\ orphans < MaxOrphans
    /\ orphans' = orphans + 1
    /\ AlbumFailed(album_retry)
    /\ UNCHANGED <<appVars, jobVars, album_download_success, bulk_calls,
                   submitted, trackVars, collectVars, result>>

\* time.sleep(2) is over: `continue`, loop condition, next attempt
AlbumWake(popen) ==
    /\ pc = "bulk_sleep"
    /\ IF AlbumLoopContinues(album_download_success, album_retry)
       THEN AlbumAttempt(album_retry, popen)
       ELSE /\ pc' = "submit"
            /\ UNCHANGED <<album_retry, bulk_calls>>
    /\ UNCHANGED <<appVars, jobVars, album_download_success, submitted,
                   trackVars, collectVars, result, orphans>>

\* ---- download_tracks: per-track dispatch --------------------------------

\* `for url in track_urls: future = self.executor.submit(...)`; one future
\* per step, so that workers run while the main thread still submits
Submit ==
    /\ pc = "submit"
    /\ submitted < num_tracks
    /\ st' = [st EXCEPT ![submitted + 1] = "queued"]
    /\ submitted' = submitted + 1
    /\ pc' = IF submitted + 1 = num_tracks THEN "collect" ELSE "submit"
    /\ UNCHANGED <<appVars, jobVars, albumVars, retry_count, attempts,
                   collectVars, result, orphans>>

\* ---- _download_single_track (run by a pool worker) ----------------------

\* a failed attempt of track i at retry_count rc: give up or sleep and retry
FailedAttempt(i, rc) ==
    IF LastRetry(rc)
    THEN /\ st' = [st EXCEPT ![i] = "fail"]
         /\ retry_count' = [retry_count EXCEPT ![i] = rc]
    ELSE /\ st' = [st EXCEPT ![i] = "sleep"]
         /\ retry_count' = [retry_count EXCEPT ![i] = NextRetry(rc)]

\* top of the retry loop for track i: the loop condition, then Popen
Attempt(i, rc, popen) ==
    IF rc < MAX_RETRIES
    THEN /\ attempts' = [attempts EXCEPT ![i] = @ + 1]
         /\ IF popen = "spawned"
            THEN /\ st' = [st EXCEPT ![i] = "running"]
                 /\ retry_count' = [retry_count EXCEPT ![i] = rc]
            ELSE FailedAttempt(i, rc)
    ELSE \* the loop ends without a return statement: the result is None
         /\ st' = [st EXCEPT ![i] = "retnone"]
         /\ UNCHANGED <<retry_count, attempts>>

\* an idle worker takes the oldest queued task. `url.split('/')` raises when
\* the element is not a string (wellFormed = FALSE): the future then holds
\* the exception and no process was started for it.
Dispatch(i, wellFormed, popen) ==
    /\ st[i] = "queued"
    /\ \A j \in Tracks : j < i => st[j] # "queued"
    /\ Busy < pool_size
    /\ IF wellFormed
       THEN Attempt(i, 0, popen)
       ELSE /\ st' = [st EXCEPT ![i] = "raised"]
            /\ UNCHANGED <<retry_count, attempts>>
    /\ UNCHANGED <<appVars, pc, jobVars, albumVars, submitted, collectVars,
                   result, orphans>>

\* the process of track i exits with `code` after printing `out`
ExitWith(i, code, out) ==
    /\ st[i] = "running"
    /\ IF AttemptSucceeded(code, out)
       THEN /\ st' = [st EXCEPT ![i] = "ok"]
            /\ UNCHANGED retry_count
       ELSE FailedAttempt(i, retry_count[i])
    /\ UNCHANGED <<pc, jobVars, albumVars, submitted, attempts, collectVars,
                   result, orphans>>

\* the same, with the output left unobserved
Exit(i, code) ==
    /\ ExitWith(i, code, <<>>)
    /\ UNCHANGED appVars

\* what the observers record of it: the exit code, and for the attempt
\* that gives up the error message of the result
Observe(i, code, out) ==
    /\ codes' = [codes EXCEPT ![i] = Append(@, code)]
    /\ IF ~AttemptSucceeded(code, out) /\ LastRetry(retry_count[i])
       THEN /\ error' = [error EXCEPT ![i] = ErrorMessage(out)]
            /\ fail_order' = Append(fail_order, i)
       ELSE UNCHANGED <<error, fail_order>>
    /\ UNCHANGED <<poolVars, sideVars, history, album_codes>>

\* the same, with the observers recording what happened
ExitObserved(i, code, out) ==
    /\ ExitWith(i, code, out)
    /\ Observe(i, code, out)
    /\ UNCHANGED <<output, abandoned>>

\* the same, with the output itself kept as well
ExitDetailed(i, code, out) ==
    /\ ExitWith(i, code, out)
    /\ Observe(i, code, out)
    /\ output' = [output EXCEPT ![i] = out]
    /\ UNCHANGED abandoned

\* reading the output of track i's process raises: the process is left
\* running and the `except Exception` branch decides about a retry
ReadRaiseWith(i) ==
    /\ st[i] = "running"
    /\ orphans < MaxOrphans
    /\ orphans' = orphans + 1
    /\ FailedAttempt(i, retry_count[i])
    /\ UNCHANGED <<pc, jobVars, albumVars, submitted, attempts, collectVars,
                   result>>

ReadRaise(i) ==
    /\ ReadRaiseWith(i)
    /\ UNCHANGED appVars

\* the same, with the observer recording whose process it was
ReadRaiseObserved(i) ==
    /\ ReadRaiseWith(i)
    /\ abandoned' = [abandoned EXCEPT ![i] = @ + 1]
    /\ UNCHANGED <<poolVars, sideVars, history, album_codes, codes, error,
                   fail_order, output>>

\* time.sleep(2) of track i's worker is over: `continue`
Wake(i, popen) ==
    /\ st[i] = "sleep"
    /\ Attempt(i, retry_count[i], popen)
    /\ UNCHANGED <<appVars, pc, jobVars, albumVars, submitted, collectVars,
                   result, orphans>>

\* an abandoned process ends on its own
OrphanExit ==
    /\ orphans > 0
    /\ orphans' = orphans - 1
    /\ UNCHANGED <<appVars, pc, jobVars, albumVars, submitted, trackVars,
                   collectVars, result>>

\* the same for a process that track i's worker abandoned
OrphanExitObserved(i) ==
    /\ abandoned[i] > 0
    /\ orphans > 0
    /\ orphans' = orphans - 1
    /\ abandoned' = [abandoned EXCEPT ![i] = @ - 1]
    /\ UNCHANGED <<poolVars, sideVars, history, album_codes, codes, error,
                   fail_order, output>>
    /\ UNCHANGED <<pc, jobVars, albumVars, submitted, trackVars, collectVars,
                   result>>

\* ---- download_tracks: collection and report -----------------------------

\* `result = future.result()` for the next future, in submission order
Collect ==
    /\ pc = "collect"
    /\ LET i == collected + 1 IN
       /\ st[i] \in {"ok", "fail", "raised", "retnone"}
       /\ successful_downloads' =
              IF st[i] = "ok" THEN successful_downloads + 1
              ELSE successful_downloads
       /\ failed_tracks' =
              IF st[i] = "ok" THEN failed_tracks
              ELSE IF st[i] = "fail" THEN RecordFailed(failed_tracks, i)
              ELSE RecordRaised(failed_tracks, i)
       /\ collected' = i
       /\ pc' = AfterCollect(i, num_tracks, st[i])
    /\ UNCHANGED <<appVars, jobVars, albumVars, submitted, trackVars, result,
                   orphans>>

\* `# Report results`: the return value
Report ==
    /\ pc = "report"
    /\ result' = OverallResult(successful_downloads, num_tracks)
    /\ pc' = "done"
    /\ UNCHANGED <<appVars, jobVars, albumVars, submitted, trackVars,
                   collectVars, orphans>>

\* download_tracks has returned (or raised) to its caller: the menu or
\* main() may call it again
JobReset ==
    /\ pc' = "idle"
    /\ num_tracks' = 0
    /\ album_url' = FALSE
    /\ dir_created' = FALSE
    /\ album_retry' = 0
    /\ album_download_success' = FALSE
    /\ bulk_calls' = 0
    /\ submitted' = 0
    /\ st' = NoTracks
    /\ retry_count' = Zeros
    /\ attempts' = Zeros
    /\ collected' = 0
    /\ successful_downloads' = 0
    /\ failed_tracks' = <<>>
    /\ result' = "unset"
    /\ UNCHANGED orphans

Return ==
    /\ pc \in {"done", "raised"}
    /\ JobReset
    /\ UNCHANGED appVars

\* the same, with the observer recording the job that has returned
ReturnObserved ==
    /\ pc = "done"
    /\ Len(history) < MaxRuns
    /\ history' = Append(history, JobRecord)
    /\ JobReset
    /\ UNCHANGED <<poolVars, sideVars, album_codes, codes, error, fail_order,
                   output, abandoned>>

Next ==
    \/ \E n \in 0..MaxTracks, album \in BOOLEAN, dirOk \in BOOLEAN,
          popen \in PopenOutcomes : download_tracks(n, album, dirOk, popen)
    \/ \E code \in ExitCodes : AlbumExit(code)
    \/ AlbumReadRaise
    \/ \E popen \in PopenOutcomes : AlbumWake(popen)
    \/ Submit
    \/ \E i \in Tracks, wellFormed \in BOOLEAN, popen \in PopenOutcomes :
          Dispatch(i, wellFormed, popen)
    \/ \E i \in Tracks, code \in ExitCodes : Exit(i, code)
    \/ \E i \in Tracks : ReadRaise(i)
    \/ \E i \in Tracks, popen \in PopenOutcomes : Wake(i, popen)
    \/ OrphanExit
    \/ Collect
    \/ Report
    \/ Return

\* One run of the application in which the thread setting is left alone.
\* No action of Next reads max_threads.
Spec == Init /\ [][Next]_vars

\* The same, with the command line and the settings menu changing max_threads.
NextSettings ==
    \/ Next
    \/ \E t \in 1..MaxThreads : SetThreads(t)

SpecSettings == Init /\ [][NextSettings]_vars

\* ---- the downloader tool is not installed --------------------------------
\* Popen(["spotdl", ...]) of a worker raises FileNotFoundError at every
\* attempt. The album command starts the bundled interpreter with
\* `-m spotdl`: either that interpreter is missing too (Popen raises) or it
\* starts and exits non-zero because the module cannot be found.
NextTool ==
    \/ \E n \in 0..MaxTracks, album \in BOOLEAN, dirOk \in BOOLEAN,
          popen \in PopenOutcomes : download_tracks(n, album, dirOk, popen)
    \/ AlbumExit(1)
    \/ \E popen \in PopenOutcomes : AlbumWake(popen)
    \/ Submit
    \/ \E i \in Tracks, wellFormed \in BOOLEAN :
          Dispatch(i, wellFormed, "oserror")
    \/ \E i \in Tracks : Wake(i, "oserror")
    \/ Collect
    \/ Report
    \/ Return

SpecTool == Init /\ [][NextTool]_vars

\* ---- the same job twice, every file already present ----------------------
\* spotdl skips a track whose file exists and exits 0, so every process
\* started exits 0. The caller passes no album URL (or a single track), the
\* output directory exists and Popen succeeds.
RunJob(n, album) ==
    /\ ~UseBulk(album, n)
    /\ history # <<>> => n = history[1].tracks /\ album = history[1].album
    /\ download_tracks(n, album, TRUE, "spawned")

NextTwice ==
    \/ \E n \in 1..MaxTracks, album \in BOOLEAN : RunJob(n, album)
    \/ Submit
    \/ \E i \in Tracks : Dispatch(i, TRUE, "spawned")
    \/ \E i \in Tracks : Exit(i, 0)
    \/ Collect
    \/ Report
    \/ ReturnObserved

SpecTwice == Init /\ [][NextTwice]_vars

\* ---- one job with its processes observed ---------------------------------
\* The output directory exists, every Popen succeeds, every read returns and
\* every URL is a string: each invocation ends with an exit code and some
\* output, and the observers record the codes, the error message kept for
\* a failed track and the order in which the workers failed.
NextObserved ==
    \/ \E n \in 1..MaxTracks, album \in BOOLEAN :
          download_tracks(n, album, TRUE, "spawned")
    \/ \E code \in ExitCodes, out \in Outputs : AlbumExitObserved(code, out)
    \/ AlbumWake("spawned")
    \/ Submit
    \/ \E i \in Tracks : Dispatch(i, TRUE, "spawned")
    \/ \E i \in Tracks, code \in ExitCodes, out \in Outputs :
          ExitObserved(i, code, out)
    \/ \E i \in Tracks : Wake(i, "spawned")
    \/ Collect
    \/ Report

SpecObserved == Init /\ [][NextObserved]_vars

\* ---- the error message of a failed track ----------------------------------
\* A job of one track URL whose processes print any output, blank lines
\* included, and exit with any code; the output of the latest process is kept
\* beside the result of the worker.
NextDetail ==
    \/ download_tracks(1, FALSE, TRUE, "spawned")
    \/ Submit
    \/ \E i \in Tracks : Dispatch(i, TRUE, "spawned")
    \/ \E i \in Tracks, code \in ExitCodes, out \in DetailOutputs :
          ExitDetailed(i, code, out)
    \/ \E i \in Tracks : Wake(i, "spawned")
    \/ Collect
    \/ Report

SpecDetail == Init /\ [][NextDetail]_vars

\* ---- the attempts of one worker ------------------------------------------
\* One job dispatched per track, in which a Popen call or a read may raise;
\* the observer keeps, per track, its processes that a raising read left
\* running.
NextWorker ==
    \/ \E n \in 1..MaxTracks : download_tracks(n, FALSE, TRUE, "spawned")
    \/ Submit
    \/ \E i \in Tracks, popen \in PopenOutcomes : Dispatch(i, TRUE, popen)
    \/ \E i \in Tracks, code \in ExitCodes : Exit(i, code)
    \/ \E i \in Tracks : ReadRaiseObserved(i)
    \/ \E i \in Tracks, popen \in PopenOutcomes : Wake(i, popen)
    \/ \E i \in Tracks : OrphanExitObserved(i)
    \/ Collect
    \/ Report

SpecWorker == Init /\ [][NextWorker]_vars

\* ---- one job under fair scheduling -----------------------------------------
\* One call of download_tracks, any job, any outcome of Popen. Every external
\* process that was started exits, every time.sleep(2) returns, and the main
\* thread and the pool's workers keep running. (A read that raises takes the
\* `except Exception` branch that a raising Popen takes.)
NextLive ==
    \/ \E n \in 0..MaxTracks, album \in BOOLEAN, dirOk \in BOOLEAN,
          popen \in PopenOutcomes : download_tracks(n, album, dirOk, popen)
    \/ \E code \in ExitCodes : AlbumExit(code)
    \/ \E popen \in PopenOutcomes : AlbumWake(popen)
    \/ Submit
    \/ \E i \in Tracks, wellFormed \in BOOLEAN, popen \in PopenOutcomes :
          Dispatch(i, wellFormed, popen)
    \/ \E i \in Tracks, code \in ExitCodes : Exit(i, code)
    \/ \E i \in Tracks, popen \in PopenOutcomes : Wake(i, popen)
    \/ Collect
    \/ Report

\* the read loops end: `if not line and process.poll() is not None: break`
ProcessesExit ==
    /\ WF_vars(\E code \in ExitCodes : AlbumExit(code))
    /\ \A i \in Tracks : WF_vars(\E code \in ExitCodes : Exit(i, code))

\* time.sleep(2) returns
SleepsEnd ==
    /\ WF_vars(\E popen \in PopenOutcomes : AlbumWake(popen))
    /\ \A i \in Tracks : WF_vars(\E popen \in PopenOutcomes : Wake(i, popen))

\* the main thread goes on after a call returns; an idle worker of the pool
\* takes the oldest queued task
ThreadsRun ==
    /\ WF_vars(Submit)
    /\ WF_vars(Collect)
    /\ WF_vars(Report)
    /\ \A i \in Tracks :
          WF_vars(\E wellFormed \in BOOLEAN, popen \in PopenOutcomes :
                     Dispatch(i, wellFormed, popen))

SpecLive ==
    Init /\ [][NextLive]_vars /\ ProcessesExit /\ SleepsEnd /\ ThreadsRun

\* ---- run(query, search_type): direct mode --------------------------------
\* Each action is one call of run() with the way it ends; download_tracks
\* is the job modelled above, run to its end.

\* `return code` of run(), also from its two except clauses
RunReturns(code) ==
    /\ run_pc' = "returned"
    /\ exit_code' = code

Ended(f, how) == calls' = [calls EXCEPT ![f] = how]

\* entry: the terminal size check, the header, the interrupted-downloads check
run(sizeOk, q) ==
    /\ run_pc = "idle"
    /\ query' = q
    /\ IF sizeOk
       THEN run_pc' = "initialize_spotify" /\ UNCHANGED exit_code
       ELSE RunReturns(1)
    /\ UNCHANGED <<selection, calls, coreVars, poolVars, obsVars, cfgVars,
                   uiVars>>

initialize_spotify(ok) ==
    /\ run_pc = "initialize_spotify"
    /\ Ended("initialize_spotify", IF ok THEN "true" ELSE "false")
    /\ IF ~ok THEN RunReturns(1)
       ELSE /\ run_pc' = IF query THEN "search_music" ELSE "show_main_menu"
            /\ UNCHANGED exit_code
    /\ UNCHANGED <<query, selection, coreVars, poolVars, obsVars, cfgVars,
                   uiVars>>

\* interactive mode: the menu returns when the user quits
show_main_menu ==
    /\ run_pc = "show_main_menu"
    /\ Ended("show_main_menu", "true")
    /\ RunReturns(0)
    /\ UNCHANGED <<query, selection, coreVars, poolVars, obsVars, cfgVars,
                   uiVars>>

\* sel = "none": the search found nothing or the user cancelled it
search_music(sel) ==
    /\ run_pc = "search_music"
    /\ selection' = sel
    /\ Ended("search_music", IF sel = "none" THEN "false" ELSE "true")
    /\ IF sel = "none" THEN RunReturns(1)
       ELSE run_pc' = "display_music_info" /\ UNCHANGED exit_code
    /\ UNCHANGED <<query, coreVars, poolVars, obsVars, cfgVars,
                   uiVars>>

display_music_info ==
    /\ run_pc = "display_music_info"
    /\ Ended("display_music_info", "true")
    /\ run_pc' = "confirm_download"
    /\ UNCHANGED <<query, selection, exit_code, coreVars, poolVars, obsVars,
                   cfgVars, uiVars>>

\* Confirm.ask("Do you want to download these tracks?")
confirm_download(yes) ==
    /\ run_pc = "confirm_download"
    /\ Ended("confirm_download", IF yes THEN "true" ELSE "false")
    /\ IF yes THEN run_pc' = "download_tracks" /\ UNCHANGED exit_code
       ELSE RunReturns(0)
    /\ UNCHANGED <<query, selection, coreVars, poolVars, obsVars, cfgVars,
                   uiVars>>

\* the call self.download_tracks(tracks, output_dir, album_url): album_url
\* is the album's external URL (hasUrl: it has one) when the selection is an
\* album, None otherwise
RunDownload(n, hasUrl, dirOk, popen) ==
    /\ run_pc = "download_tracks"
    /\ download_tracks(n, selection = "album" /\ hasUrl, dirOk, popen)

\* download_tracks returns or raises into run()
download_returns ==
    /\ run_pc = "download_tracks"
    /\ pc \in {"done", "raised"}
    /\ IF pc = "raised"
       THEN Ended("download_tracks", "raised") /\ RunReturns(1)
       ELSE /\ Ended("download_tracks",
                     IF result = "True" THEN "true" ELSE "false")
            /\ IF DownloadFailed(result) THEN RunReturns(1)
               ELSE /\ run_pc' = "enhance_download_metadata"
                    /\ UNCHANGED exit_code
    /\ UNCHANGED <<query, selection, coreVars, poolVars, obsVars, cfgVars,
                   uiVars>>

enhance_download_metadata ==
    /\ run_pc = "enhance_download_metadata"
    /\ Ended("enhance_download_metadata", "true")
    /\ run_pc' = "confirm_burn"
    /\ UNCHANGED <<query, selection, exit_code, coreVars, poolVars, obsVars,
                   cfgVars, uiVars>>

\* Confirm.ask("Do you want to burn these tracks to CD/DVD?")
confirm_burn(yes) ==
    /\ run_pc = "confirm_burn"
    /\ Ended("confirm_burn", IF yes THEN "true" ELSE "false")
    /\ IF yes THEN run_pc' = "burn_to_disc" /\ UNCHANGED exit_code
       ELSE RunReturns(0)
    /\ UNCHANGED <<query, selection, coreVars, poolVars, obsVars, cfgVars,
                   uiVars>>

\* burn_to_disc, and show_manual_burn_instructions when it returns False
burn_to_disc(ok) ==
    /\ run_pc = "burn_to_disc"
    /\ calls' = [calls EXCEPT
                    !["burn_to_disc"] = IF ok THEN "true" ELSE "false",
                    !["show_manual_burn_instructions"] =
                        IF ok THEN @ ELSE "true"]
    /\ RunReturns(0)
    /\ UNCHANGED <<query, selection, coreVars, poolVars, obsVars, cfgVars,
                   uiVars>>

\* a callee other than download_tracks raises: `except KeyboardInterrupt`
\* returns 0, `except Exception` returns 1
StageRaises(exc) ==
    /\ run_pc \in RunCallees \ {"download_tracks"}
    /\ Ended(run_pc, IF exc = "KeyboardInterrupt" THEN "interrupted"
                     ELSE "raised")
    /\ RunReturns(IF exc = "KeyboardInterrupt" THEN 0 ELSE 1)
    /\ UNCHANGED <<query, selection, coreVars, poolVars, obsVars, cfgVars,
                   uiVars>>

NextRun ==
    \/ \E sizeOk \in BOOLEAN, q \in BOOLEAN : run(sizeOk, q)
    \/ \E ok \in BOOLEAN : initialize_spotify(ok)
    \/ show_main_menu
    \/ \E sel \in SelectionTypes \cup {"none"} : search_music(sel)
    \/ display_music_info
    \/ \E yes \in BOOLEAN : confirm_download(yes)
    \/ \E n \in 0..MaxTracks, hasUrl \in BOOLEAN, dirOk \in BOOLEAN,
          popen \in PopenOutcomes : RunDownload(n, hasUrl, dirOk, popen)
    \/ \E code \in ExitCodes : AlbumExit(code)
    \/ \E popen \in PopenOutcomes : AlbumWake(popen)
    \/ Submit
    \/ \E i \in Tracks, wellFormed \in BOOLEAN, popen \in PopenOutcomes :
          Dispatch(i, wellFormed, popen)
    \/ \E i \in Tracks, code \in ExitCodes : Exit(i, code)
    \/ \E i \in Tracks, popen \in PopenOutcomes : Wake(i, popen)
    \/ Collect
    \/ Report
    \/ download_returns
    \/ enhance_download_metadata
    \/ \E yes \in BOOLEAN : confirm_burn(yes)
    \/ \E ok \in BOOLEAN : burn_to_disc(ok)
    \/ \E exc \in {"Exception", "KeyboardInterrupt"} : StageRaises(exc)

SpecRun == Init /\ [][NextRun]_vars

\* ---- configuration: __init__, the settings menu, save_config -------------
runCoreVars == <<runVars, coreVars, poolVars, obsVars, uiVars>>

\* SpotifyBurner(): load_config, then the attributes are read from the dict
\* with `.get` and the executor is built from max_threads. When load_config
\* raises, or returns something without `.get`, or ThreadPoolExecutor raises,
\* the constructor raises and there is no instance.
Construct ==
    /\ loaded_kind' = cfg_file.kind
    /\ LET loaded == LoadConfig(cfg_file) IN
       IF /\ loaded.ends = "dict"
          /\ ~PoolRaises(FromConfig(loaded.value).max_threads)
       THEN /\ ctor' = "ok"
            /\ config' = loaded.value
            /\ app' = FromConfig(loaded.value)
            /\ reloaded' = TRUE
       ELSE /\ ctor' = "raised"
            /\ config' = EmptyDict
            /\ app' = NoApp
            /\ reloaded' = FALSE
    /\ UNCHANGED <<cfg_file, saved, runCoreVars>>

\* manage_settings choices 2, 5, 10 and main()'s overrides
SetSetting(k, v) ==
    /\ ctor = "ok"
    /\ app' = [app EXCEPT ![k] = v]
    /\ reloaded' = FALSE
    /\ UNCHANGED <<cfg_file, ctor, config, saved, loaded_kind, runCoreVars>>

\* manage_settings choice 7
SetBurnSetting(k, v) ==
    /\ ctor = "ok"
    /\ app' = [app EXCEPT !.burn_settings[k] = v]
    /\ reloaded' = FALSE
    /\ UNCHANGED <<cfg_file, ctor, config, saved, loaded_kind, runCoreVars>>

\* save_config: the nine settings are dumped; an exception of makedirs or
\* open (writeOk = FALSE) is caught and reported, the file is not written
save_config(writeOk) ==
    /\ ctor = "ok"
    /\ IF writeOk
       THEN /\ cfg_file' = ObjectFile(DumpConfig(app))
            /\ saved' = [valid |-> TRUE, attrs |-> app]
            /\ reloaded' = FALSE
       ELSE UNCHANGED <<cfg_file, saved, reloaded>>
    /\ UNCHANGED <<ctor, config, app, loaded_kind, runCoreVars>>

\* the file is deleted or damaged behind the application's back
Damage(kind) ==
    /\ cfg_file' = FileOf(kind)
    /\ saved' = NotSaved
    /\ UNCHANGED <<ctor, config, app, reloaded, loaded_kind, runCoreVars>>

\* the file is written by hand
WriteByHand ==
    /\ cfg_file' = HandWritten
    /\ saved' = NotSaved
    /\ UNCHANGED <<ctor, config, app, reloaded, loaded_kind, runCoreVars>>

\* "max_threads" is edited by hand in the file
WriteThreadsByHand(j) ==
    /\ cfg_file' = ObjectFile([max_threads |-> j])
    /\ saved' = NotSaved
    /\ UNCHANGED <<ctor, config, app, reloaded, loaded_kind, runCoreVars>>

NextConfig ==
    \/ Construct
    \/ \E k \in DOMAIN SettingChoices :
          \E v \in SettingChoices[k] : SetSetting(k, v)
    \/ \E k \in DOMAIN BurnChoices :
          \E v \in BurnChoices[k] : SetBurnSetting(k, v)
    \/ \E writeOk \in BOOLEAN : save_config(writeOk)
    \/ \E kind \in DamagedKinds : Damage(kind)
    \/ WriteByHand
    \/ \E j \in ThreadTokens : WriteThreadsByHand(j)

SpecConfig == Init /\ [][NextConfig]_vars

\* ---- SIGINT / SIGTERM / SIGHUP during a job ------------------------------
\* signal_handler runs in the main thread, wherever it is in download_tracks:
\* `self.executor.shutdown(wait=False)` returns at once and cancels nothing,
\* then `sys.exit(0)` raises SystemExit, which no `except Exception` of
\* download_tracks catches. The main thread is gone; the pool's workers are
\* ordinary threads that the interpreter joins at exit, and they go on
\* serving the queue and their retry loops.
Signal ==
    /\ pc \in {"bulk", "bulk_sleep", "submit", "collect", "report"}
    /\ pc' = "exited"
    /\ UNCHANGED <<appVars, jobVars, albumVars, submitted, trackVars,
                   collectVars, result, orphans>>

NextSignal ==
    \/ \E n \in 0..MaxTracks, album \in BOOLEAN, dirOk \in BOOLEAN,
          popen \in PopenOutcomes : download_tracks(n, album, dirOk, popen)
    \/ \E code \in ExitCodes : AlbumExit(code)
    \/ \E popen \in PopenOutcomes : AlbumWake(popen)
    \/ Submit
    \/ \E i \in Tracks, wellFormed \in BOOLEAN, popen \in PopenOutcomes :
          Dispatch(i, wellFormed, popen)
    \/ \E i \in Tracks, code \in ExitCodes : Exit(i, code)
    \/ \E i \in Tracks, popen \in PopenOutcomes : Wake(i, popen)
    \/ Collect
    \/ Report
    \/ Return
    \/ Signal

SpecSignal == Init /\ [][NextSignal]_vars

\* ---- playlist_manager.process_downloads ----------------------------------

\* entry, up to `for playlist in selected_playlist_objects:`
process_downloads(pls, liked) ==
    /\ pd_pc = "idle"
    /\ pd_pc' = "playlists"
    /\ pd_playlists' = pls
    /\ pd_liked' = liked
    /\ pd_p' = 1
    /\ pd_t' = 0
    /\ pd_calls' = <<>>
    /\ pd_last' = "none"
    /\ UNCHANGED <<coreVars, poolVars, obsVars, runVars, cfgVars, tuiVars>>

\* `if not playlist or 'name' not in playlist or 'id' not in playlist:
\*      continue`
SkipPlaylist ==
    /\ pd_pc = "playlists"
    /\ pd_p <= Len(pd_playlists)
    /\ ~pd_playlists[pd_p].valid
    /\ pd_p' = pd_p + 1
    /\ UNCHANGED <<pd_pc, pd_playlists, pd_liked, pd_t, pd_calls, pd_last>>
    /\ UNCHANGED <<coreVars, poolVars, obsVars, runVars, cfgVars, tuiVars>>

\* `playlist_tracks = get_playlist_tracks(playlist_id)` inside `try:`; an
\* exception is logged by the playlist's `except`, an empty list by
\* `if not playlist_tracks: continue`; both go on with the next playlist
FetchPlaylist ==
    /\ pd_pc = "playlists"
    /\ pd_p <= Len(pd_playlists)
    /\ pd_playlists[pd_p].valid
    /\ pd_t = 0
    /\ IF pd_playlists[pd_p].fetch = "raises"
          \/ pd_playlists[pd_p].tracks = <<>>
       THEN pd_p' = pd_p + 1 /\ pd_t' = 0
       ELSE pd_p' = pd_p /\ pd_t' = 1
    /\ UNCHANGED <<pd_pc, pd_playlists, pd_liked, pd_calls, pd_last>>
    /\ UNCHANGED <<coreVars, poolVars, obsVars, runVars, cfgVars, tuiVars>>

\* one pass of `for track in playlist_tracks:`; res is how the `try:` around
\* download_track ends for a valid track
PlaylistTrack(res) ==
    /\ pd_pc = "playlists"
    /\ pd_p <= Len(pd_playlists)
    /\ pd_t >= 1
    /\ LET tracks == pd_playlists[pd_p].tracks IN
       /\ IF tracks[pd_t] = "valid"
          THEN /\ pd_calls' = Append(pd_calls, <<pd_p, pd_t>>)
               /\ pd_last' = res
          ELSE UNCHANGED <<pd_calls, pd_last>>
       /\ IF pd_t = Len(tracks)
          THEN pd_p' = pd_p + 1 /\ pd_t' = 0
          ELSE pd_p' = pd_p /\ pd_t' = pd_t + 1
    /\ UNCHANGED <<pd_pc, pd_playlists, pd_liked>>
    /\ UNCHANGED <<coreVars, poolVars, obsVars, runVars, cfgVars, tuiVars>>

\* the playlists are done: `if liked_songs_object and
\* liked_songs_object.get('items'):` then `os.makedirs(liked_folder,
\* exist_ok=True)`, which no `try:` encloses; without liked songs the final
\* message is logged and the function returns
LikedSongs(dirOk) ==
    /\ pd_pc = "playlists"
    /\ pd_p > Len(pd_playlists)
    /\ IF ~pd_liked.present \/ pd_liked.items = <<>>
       THEN pd_pc' = "finished" /\ pd_t' = 0
       ELSE IF ~dirOk
       THEN pd_pc' = "raised" /\ pd_t' = 0
       ELSE pd_pc' = "liked" /\ pd_t' = 1
    /\ UNCHANGED <<pd_playlists, pd_liked, pd_p, pd_calls, pd_last>>
    /\ UNCHANGED <<coreVars, poolVars, obsVars, runVars, cfgVars, tuiVars>>

\* one pass of `for item in liked_songs_object['items']:`; after the last
\* one the final message is logged
LikedItem(res) ==
    /\ pd_pc = "liked"
    /\ IF pd_liked.items[pd_t] = "valid"
       THEN /\ pd_calls' = Append(pd_calls, <<0, pd_t>>)
            /\ pd_last' = res
       ELSE UNCHANGED <<pd_calls, pd_last>>
    /\ IF pd_t = Len(pd_liked.items)
       THEN pd_pc' = "finished" /\ pd_t' = 0
       ELSE pd_pc' = "liked" /\ pd_t' = pd_t + 1
    /\ UNCHANGED <<pd_playlists, pd_liked, pd_p>>
    /\ UNCHANGED <<coreVars, poolVars, obsVars, runVars, cfgVars, tuiVars>>

\* the caller has the return or the exception; a later call starts afresh
ProcessDownloadsEnds ==
    /\ pd_pc \in {"finished", "raised"}
    /\ pd_pc' = "idle"
    /\ pd_playlists' = <<>>
    /\ pd_liked' = NoLiked
    /\ pd_p' = 0
    /\ pd_t' = 0
    /\ pd_calls' = <<>>
    /\ pd_last' = "none"
    /\ UNCHANGED <<coreVars, poolVars, obsVars, runVars, cfgVars, tuiVars>>

NextPlaylists ==
    \/ \E pls \in PlaylistLists, liked \in LikedForms :
          process_downloads(pls, liked)
    \/ SkipPlaylist
    \/ FetchPlaylist
    \/ \E res \in TrackOutcomes : PlaylistTrack(res)
    \/ \E dirOk \in BOOLEAN : LikedSongs(dirOk)
    \/ \E res \in TrackOutcomes : LikedItem(res)
    \/ ProcessDownloadsEnds

SpecPlaylists == Init /\ [][NextPlaylists]_vars

\* ---- the Textual TUI: buttons, bindings, refresh and download ------------
\* Handlers run to their first `await` in one step. The app's message pump
\* hands key presses, button presses and checkbox changes to a handler when
\* it is not awaiting one (`pump = "free"`); a coroutine started with
\* asyncio.create_task runs beside it.

tuiFrame == <<coreVars, poolVars, obsVars, runVars, cfgVars, pdVars>>

\* action_refresh_data up to `await asyncio.to_thread(get_user_playlists)`:
\* the button is disabled and the lists are replaced by "Loading..."
RefreshBegins ==
    /\ btn_refresh_disabled' = TRUE
    /\ listed' = FALSE

\* the data is there (or the fetch raised): the lists are rebuilt with
\* unchecked checkboxes, then `finally:` enables the button; the selection
\* sets are not touched
RefreshFinally ==
    /\ btn_refresh_disabled' = FALSE
    /\ listed' = TRUE

\* on_mount: `asyncio.create_task(self.action_refresh_data())`
on_mount ==
    /\ ~mounted
    /\ mounted' = TRUE
    /\ refresh_tasks' = refresh_tasks + 1
    /\ RefreshBegins
    /\ UNCHANGED <<selected_playlists, selected_liked_songs,
                   btn_download_disabled, pump, tuiFrame>>

\* on_button_pressed, "btn-refresh": the refresh runs as a task of its own
PressRefresh ==
    /\ mounted /\ pump = "free"
    /\ ~btn_refresh_disabled
    /\ refresh_tasks < MaxRefresh
    /\ refresh_tasks' = refresh_tasks + 1
    /\ RefreshBegins
    /\ UNCHANGED <<mounted, selected_playlists, selected_liked_songs,
                   btn_download_disabled, pump, tuiFrame>>

\* binding ("r", "refresh_data"): the pump awaits action_refresh_data
KeyRefresh ==
    /\ mounted /\ pump = "free"
    /\ pump' = "refresh"
    /\ RefreshBegins
    /\ UNCHANGED <<mounted, selected_playlists, selected_liked_songs,
                   btn_download_disabled, refresh_tasks, tuiFrame>>

\* a refresh task has its data (or an exception): `finally:`
RefreshTaskDone ==
    /\ refresh_tasks > 0
    /\ refresh_tasks' = refresh_tasks - 1
    /\ RefreshFinally
    /\ UNCHANGED <<mounted, selected_playlists, selected_liked_songs,
                   btn_download_disabled, pump, tuiFrame>>

\* the refresh awaited by the pump has its data: `finally:`
RefreshActionDone ==
    /\ pump = "refresh"
    /\ pump' = "free"
    /\ RefreshFinally
    /\ UNCHANGED <<mounted, selected_playlists, selected_liked_songs,
                   btn_download_disabled, refresh_tasks, tuiFrame>>

\* on_checkbox_changed for the checkbox of playlist `id`
PlaylistCheckbox(id, is_selected) ==
    /\ mounted /\ pump = "free"
    /\ listed
    /\ LET sel == IF is_selected THEN selected_playlists \cup {id}
                  ELSE selected_playlists \ {id} IN
       /\ selected_playlists' = sel
       /\ btn_download_disabled' = ~(sel # {} \/ selected_liked_songs)
    /\ UNCHANGED <<mounted, listed, selected_liked_songs, btn_refresh_disabled, pump,
                   refresh_tasks, tuiFrame>>

\* on_checkbox_changed for "cb-liked-songs"
LikedCheckbox(is_selected) ==
    /\ mounted /\ pump = "free"
    /\ listed
    /\ selected_liked_songs' = is_selected
    /\ btn_download_disabled' = ~(selected_playlists # {} \/ is_selected)
    /\ UNCHANGED <<mounted, listed, selected_playlists, btn_refresh_disabled, pump,
                   refresh_tasks, tuiFrame>>

\* binding ("s", "start_download"): action_start_download up to
\* `await asyncio.to_thread(process_downloads, ...)`
action_start_download ==
    /\ mounted /\ pump = "free"
    /\ IF selected_playlists = {} /\ ~selected_liked_songs
       THEN UNCHANGED <<btn_download_disabled, btn_refresh_disabled, pump>>
       ELSE /\ btn_download_disabled' = TRUE
            /\ btn_refresh_disabled' = TRUE
            /\ pump' = "download"
    /\ UNCHANGED <<mounted, listed, selected_playlists, selected_liked_songs,
                   refresh_tasks, tuiFrame>>

\* process_downloads has returned or raised in its thread: `except
\* Exception` logs, `finally:` re-enables both buttons
DownloadEnds(raised) ==
    /\ pump = "download"
    /\ pump' = "free"
    /\ btn_download_disabled' = FALSE
    /\ btn_refresh_disabled' = FALSE
    /\ UNCHANGED <<mounted, listed, selected_playlists, selected_liked_songs,
                   refresh_tasks, tuiFrame>>

NextTui ==
    \/ on_mount
    \/ PressRefresh
    \/ KeyRefresh
    \/ RefreshTaskDone
    \/ RefreshActionDone
    \/ \E id \in PlaylistIds, v \in BOOLEAN : PlaylistCheckbox(id, v)
    \/ \E v \in BOOLEAN : LikedCheckbox(v)
    \/ action_start_download
    \/ \E raised \in BOOLEAN : DownloadEnds(raised)

SpecTui == Init /\ [][NextTui]_vars

\* ---- properties ----------------------------------------------------------

Requests == 1..num_tracks
FailedSet == {failed_tracks[k] : k \in 1..Len(failed_tracks)}
Succeeded == {i \in Requests : st[i] = "ok"}

\* the per-track collection loop has consumed every future of the job
OutcomeDecided ==
    pc \in {"report", "done"} /\ num_tracks > 0 /\ ~album_download_success

\* download_tracks has returned the result of per-track dispatch
PerTrackReturned == pc = "done" /\ num_tracks > 0 /\ ~album_download_success

\* C1: every request of a per-track dispatch has exactly one outcome: while
\* the futures are collected the successes and the failed list together
\* count the futures consumed so far, and once the outcome is decided they
\* count N, the failed list names each request that did not succeed exactly
\* once (a request whose worker raised included) and no request that did.
C1_OneOutcomePerRequest ==
    /\ successful_downloads + Len(failed_tracks) = collected
    /\ Cardinality(FailedSet) = Len(failed_tracks)
    /\ OutcomeDecided =>
          /\ successful_downloads + Len(failed_tracks) = num_tracks
          /\ successful_downloads = Cardinality(Succeeded)
          /\ FailedSet = Requests \ Succeeded

C1_Witness ==
    /\ PerTrackReturned
    /\ num_tracks >= 3
    /\ \E i, j, k \in Requests :
          st[i] = "ok" /\ st[j] = "fail" /\ st[k] = "raised"

\* C2: during per-track dispatch the number of external downloader
\* processes started and not yet exited is at most max_threads.
C2_InFlightAtMostMaxThreads ==
    pc \in {"submit", "collect"} => InFlight <= max_threads

C4_FallBackCoversAllRequests ==
    (OutcomeDecided /\ bulk_calls > 0) =>
        /\ submitted = num_tracks
        /\ \A i \in Requests :
              /\ st[i] \in {"ok", "fail", "raised"}
              /\ st[i] # "raised" => attempts[i] >= 1
        /\ successful_downloads = Cardinality(Succeeded)

C4_Witness ==
    /\ PerTrackReturned
    /\ album_url
    /\ bulk_calls = MAX_RETRIES
    /\ num_tracks = 3
    /\ \A i \in Requests : attempts[i] >= 1

\* C5: once the album process has exited with code 0 the job has returned
\* True and, for the rest of the job, no future was submitted and no
\* per-track invocation was made.
C5_BulkSuccessNoPerTrack ==
    album_download_success =>
        /\ pc = "done"
        /\ result = "True"
        /\ submitted = 0
        /\ \A i \in Tracks : st[i] = "none" /\ attempts[i] = 0

C5_Witness ==
    album_download_success /\ num_tracks = 3 /\ bulk_calls = 2

C9_EmptyJobSucceeds ==
    (pc = "done" /\ num_tracks = 0) => result = "True"

\* C10: a job with zero requests makes no album invocation, no per-track
\* invocation and submits nothing to the pool, with or without an album
\* URL; it returns at once.
C10_EmptyJobNoExternalCall ==
    num_tracks = 0 =>
        /\ pc \in {"idle", "done"}
        /\ bulk_calls = 0
        /\ submitted = 0
        /\ \A i \in Tracks : st[i] = "none" /\ attempts[i] = 0

C10_Witness ==
    pc = "done" /\ num_tracks = 0 /\ album_url /\ bulk_calls = 0

\* C11: no external invocation is made before the output directory has
\* been created, and when os.makedirs fails the job ends at once, raising,
\* with no album invocation, no future submitted and no per-track
\* invocation.
C11_DirectoryFirstOrNothing ==
    /\ (bulk_calls > 0 \/ submitted > 0 \/ \E i \in Tracks : attempts[i] > 0)
          => dir_created
    /\ pc \in {"bulk", "bulk_sleep", "submit", "collect", "report"}
          => dir_created
    /\ pc = "raised" =>
          /\ ~dir_created
          /\ result = "unset"
          /\ bulk_calls = 0
          /\ submitted = 0
          /\ \A i \in Tracks : st[i] = "none" /\ attempts[i] = 0

C11_Witness ==
    pc = "raised" /\ num_tracks = 3 /\ album_url /\ ~dir_created

\* C12: with the downloader tool missing, the job spends no per-track
\* invocation attempt and no retry: no worker ever calls Popen and no
\* retry counter ever leaves zero.
C12_ToolMissingNoAttempt ==
    \A i \in Tracks : attempts[i] = 0 /\ retry_count[i] = 0 /\ st[i] # "sleep"

Signalled == pc = "exited"

\* C14: once the cancellation signal has been handled, download_tracks has
\* a return value (the partial outcome) and no task is left in flight: the
\* task that was running has been turned into a failed result.
C14_SignalReturnsPartialOutcome ==
    Signalled =>
        /\ result \in {"True", "False"}
        /\ \A i \in Tracks : st[i] \notin {"running", "sleep"}

\* C15: once the cancellation signal has been handled, no worker starts an
\* external process any more and a task that is still queued stays queued.
C15_NoDispatchAfterSignal ==
    [][Signalled =>
          /\ attempts' = attempts
          /\ \A i \in Tracks : st[i] = "queued" => st'[i] = "queued"]_vars

\* what the exit codes alone say: an album process exited 0; the last
\* process of track i exited 0
AlbumOk == \E k \in 1..Len(album_codes) : album_codes[k] = 0
TrackOk(i) == codes[i] # <<>> /\ codes[i][Len(codes[i])] = 0

C17_FailureDoesNotHaltJob ==
    /\ pc = "raised" => submitted = 0 /\ collected = 0
    /\ OutcomeDecided =>
          /\ collected = num_tracks
          /\ \A i \in Requests :
                /\ st[i] \in {"ok", "fail", "raised", "retnone"}
                /\ st[i] \in {"ok", "fail"} => attempts[i] >= 1
                /\ st[i] = "fail" => attempts[i] = MAX_RETRIES
                /\ i \in FailedSet <=> st[i] # "ok"

C17_Witness ==
    /\ pc = "done"
    /\ num_tracks = 3
    /\ st[1] = "fail"
    /\ st[2] = "raised"
    /\ st[3] = "ok"
    /\ attempts[3] = 1
    /\ failed_tracks = <<1, 2>>

\* C18 (as stated): the failed list is in the order in which the workers
\* failed.
C18_FailedInCompletionOrder ==
    OutcomeDecided => failed_tracks = fail_order

\* C18 (amended): the failed list is in request order, whatever the order
\* in which the workers failed: its entries are strictly increasing request
\* indices.
C18_FailedInRequestOrder ==
    \A j, k \in 1..Len(failed_tracks) :
        j < k => failed_tracks[j] < failed_tracks[k]

C18_Witness ==
    /\ pc = "done"
    /\ fail_order = <<2, 1>>
    /\ failed_tracks = <<1, 2>>

\* run(): callee f has been entered / has ended by returning a false value
\* or by raising an Exception
Called(f) ==
    calls[f] # "not_called" \/ (f = "download_tracks" /\ run_pc = f /\ pc # "idle")
Failed(f) == calls[f] \in {"false", "raised"}

\* C19: in direct mode a failed stage ends run() with exit code 1 and
\* nothing after it is called: after a failed initialisation no search,
\* after a search without selection no display and no download, after a
\* failed download no burn; the download is only entered after a successful
\* initialisation, a selection and the user's confirmation; and burn_to_disc
\* is only entered after download_tracks returned True and the user
\* confirmed the burn.
C19_FailedStageStopsFlow ==
    /\ \A f \in {"initialize_spotify", "search_music", "download_tracks"} :
          Failed(f) => run_pc = "returned" /\ exit_code = 1
    /\ Failed("initialize_spotify") =>
          \A f \in RunCallees \ {"initialize_spotify"} : ~Called(f)
    /\ Failed("search_music") =>
          ~Called("display_music_info") /\ ~Called("download_tracks")
    /\ Failed("download_tracks") =>
          /\ ~Called("enhance_download_metadata")
          /\ ~Called("burn_to_disc")
          /\ run_pc # "burn_to_disc"
    /\ Called("download_tracks") =>
          /\ calls["initialize_spotify"] = "true"
          /\ calls["search_music"] = "true"
          /\ calls["confirm_download"] = "true"
    /\ (Called("burn_to_disc") \/ run_pc = "burn_to_disc") =>
          /\ calls["download_tracks"] = "true"
          /\ result = "True"
          /\ calls["confirm_burn"] = "true"

C19_Witness ==
    /\ run_pc = "returned"
    /\ exit_code = 1
    /\ calls["download_tracks"] = "false"
    /\ num_tracks = 2
    /\ attempts[2] = MAX_RETRIES
    /\ calls["burn_to_disc"] = "not_called"

\* C20: an instance built after save_config and not changed since has the
\* nine settings that were saved; and an instance built from a missing or
\* damaged config file exists, has an empty config and, until a setting is
\* changed, the default value of every setting.
C20_ConfigRoundTrips ==
    /\ (ctor = "ok" /\ reloaded /\ saved.valid) => app = saved.attrs
    /\ (ctor # "none" /\ loaded_kind \in DamagedKinds) =>
          /\ ctor = "ok"
          /\ config = EmptyDict
          /\ reloaded => app = Defaults

\* the part of C20 that the code keeps: the round trip, and the defaults for
\* a missing file and for text that is not JSON
ConfigRoundTripsForReadableFiles ==
    /\ (ctor = "ok" /\ reloaded /\ saved.valid) => app = saved.attrs
    /\ (ctor # "none" /\ loaded_kind \in {"missing", "syntax_error"}) =>
          /\ ctor = "ok"
          /\ config = EmptyDict
          /\ reloaded => app = Defaults

\* per-track external processes that a worker started and is reading
Running == {i \in Tracks : st[i] = "running"}

\* C21: the per-track downloads of a job run with at most max_threads
\* simultaneous external invocations, max_threads being the value the
\* command line or the settings menu set before the job.
C21_RunningAtMostConfigured ==
    pc \in {"submit", "collect"} => Cardinality(Running) <= max_threads

\* C22: the max_threads of every instance is an integer that is at least 1,
\* whether it came from the default, the config file, the command line or
\* the settings menu.
C22_LimitAtLeastOne ==
    ctor = "ok" =>
        /\ app.max_threads.type = "int"
        /\ IntOf(app.max_threads) >= 1

\* the part of C22 that the code keeps: an integer below 1 in the config
\* file never becomes the limit of an instance (the constructor raises)
IntegerLimitAtLeastOne ==
    (ctor = "ok" /\ app.max_threads.type = "int") =>
        IntOf(app.max_threads) >= 1

\* C23: the album download is used only for a job with an album URL and
\* more than one track URL. Every album invocation, and every wait of the
\* album loop, belongs to such a job; a job with no album URL, or with
\* exactly one track URL, never makes an album invocation, never enters the
\* album loop and, once its directory exists, is at per-track dispatch or
\* past it.
C23_BulkOnlyWithHintAndSeveral ==
    /\ (bulk_calls > 0 \/ album_retry > 0 \/ album_download_success
        \/ pc \in {"bulk", "bulk_sleep"}) =>
          album_url /\ num_tracks > 1
    /\ (num_tracks > 0 /\ (~album_url \/ num_tracks = 1)) =>
          /\ bulk_calls = 0
          /\ pc \in {"submit", "collect", "report", "done", "raised"}
          /\ pc # "raised" => dir_created

C23_Witness ==
    /\ pc = "collect"
    /\ album_url
    /\ num_tracks = 1
    /\ bulk_calls = 0
    /\ st[1] = "running"

\* the last non-empty line of an output (only used where there is one)
NonEmptyLines(out) == SelectSeq(out, LAMBDA l : l # "")
LastNonEmpty(out) == NonEmptyLines(out)[Len(NonEmptyLines(out))]

\* C24 (as stated): the error detail of a track that failed after its last
\* attempt exited non-zero is the last non-empty line that attempt printed.
C24_DetailIsLastNonEmptyLine ==
    \A i \in Tracks :
        (st[i] = "fail" /\ NonEmptyLines(output[i]) # <<>>) =>
            error[i] = LastNonEmpty(output[i])

\* C24 (amended): it is the last line of that output that is an error line;
\* when there is none, the last line of the output as it is after the strip
\* (empty for a blank line); and "Unknown error" when nothing was printed.
C24_DetailIsLastErrorLineElseLastLine ==
    \A i \in Tracks :
        st[i] = "fail" =>
            LET out == output[i]
                errs == {k \in 1..Len(out) : out[k] \in ErrorLines}
            IN  /\ errs # {} =>
                      \E k \in errs : /\ \A m \in errs : m <= k
                                      /\ error[i] = out[k]
                /\ (errs = {} /\ Len(out) > 0) => error[i] = out[Len(out)]
                /\ Len(out) = 0 => error[i] = "Unknown error"

C24_Witness ==
    /\ st[1] = "fail"
    /\ attempts[1] = MAX_RETRIES
    /\ output[1] = <<"ERROR: failed", "Downloaded 50%">>
    /\ error[1] = "ERROR: failed"

\* C25: a worker holds one request at a time (no more requests are in
\* progress than the pool has workers, and a request is taken only at its
\* turn); an attempt of a track runs only when no process of an earlier
\* attempt of that track is still alive; a worker sleeps only with an
\* attempt left to make, after as many attempts as retries counted.
C25_AttemptsStrictlySequential ==
    /\ Busy <= pool_size
    /\ \A i \in Tracks :
          /\ st[i] = "running" => abandoned[i] = 0
          /\ st[i] = "sleep" =>
                attempts[i] = retry_count[i] /\ attempts[i] < MAX_RETRIES
          /\ st[i] \in {"ok", "fail"} =>
                attempts[i] = retry_count[i] + 1

\* the part of C25 that the code keeps, the overlap left aside
AttemptsOrderedAndNoFinalDelay ==
    /\ Busy <= pool_size
    /\ \A i \in Tracks :
          /\ st[i] = "sleep" =>
                attempts[i] = retry_count[i] /\ attempts[i] < MAX_RETRIES
          /\ st[i] \in {"ok", "fail"} =>
                attempts[i] = retry_count[i] + 1

\* download_tracks has been entered and has not returned / has returned or
\* raised
Started == pc \in {"bulk", "bulk_sleep", "submit", "collect", "report"}
Finished == pc \in {"done", "raised"}

\* C26: when every external process exits, a call of download_tracks ends.
\* The album loop and each per-track loop are bounded: no more than
\* MAX_RETRIES invocations each, the retry counters stay below MAX_RETRIES;
\* the collection consumes each submitted future once (never more futures
\* than were submitted, all of them when the report is reached); and a job
\* that has started always comes to its return (or to its exception).
C26_JobTerminates ==
    /\ [](/\ bulk_calls <= MAX_RETRIES
          /\ album_retry < MAX_RETRIES
          /\ \A i \in Tracks :
                attempts[i] <= MAX_RETRIES /\ retry_count[i] < MAX_RETRIES
          /\ collected <= submitted
          /\ submitted <= num_tracks
          /\ (pc \in {"report", "done"} /\ submitted > 0) =>
                collected = submitted /\ submitted = num_tracks)
    /\ (Started ~> Finished)

C26_Witness ==
    /\ pc = "done"
    /\ num_tracks = 3
    /\ bulk_calls = MAX_RETRIES
    /\ collected = 3
    /\ \A i \in Requests : attempts[i] = MAX_RETRIES

\* C28: in one job the album invocation is issued at most MAX_RETRIES
\* times; each invocation after the first is issued from the pause that
\* follows a failed or raising one; and per-track dispatch of a job that
\* took the album path begins only when the third invocation has failed.
C28_BulkRetriedOnlyAfterFailure ==
    [][/\ bulk_calls' <= MAX_RETRIES
       /\ bulk_calls' > bulk_calls =>
            /\ bulk_calls' = bulk_calls + 1
            /\ \/ pc = "idle" /\ bulk_calls = 0
               \/ /\ pc = "bulk_sleep"
                  /\ ~album_download_success
                  /\ album_retry = bulk_calls
       /\ (pc' = "bulk_sleep" /\ (pc # "bulk_sleep" \/ bulk_calls' > bulk_calls)) =>
            /\ ~album_download_success'
            /\ album_retry' = bulk_calls'
       /\ (pc' = "submit" /\ pc # "submit" /\ album_url' /\ num_tracks' > 1) =>
            /\ bulk_calls' = MAX_RETRIES
            /\ ~album_download_success']_vars

C28_Witness ==
    /\ pc = "submit" /\ submitted = 0
    /\ album_url /\ ~album_download_success
    /\ bulk_calls = MAX_RETRIES /\ album_retry = MAX_RETRIES - 1

\* the download_track calls made for playlist tracks, as <<playlist, track>>
PlaylistCalls == SelectSeq(pd_calls, LAMBDA c : c[1] > 0)

\* track t of playlist p is one process_downloads has to download
ValidTrack(p, t) ==
    /\ p \in 1..Len(pd_playlists)
    /\ pd_playlists[p].valid
    /\ pd_playlists[p].fetch = "ok"
    /\ t \in 1..Len(pd_playlists[p].tracks)
    /\ pd_playlists[p].tracks[t] = "valid"

\* the loops have gone past track t of playlist p
Passed(p, t) ==
    pd_pc # "playlists" \/ p < pd_p \/ (p = pd_p /\ t < pd_t)

\* The part of C27 about the playlist loop: the calls made so far are
\* exactly the valid tracks passed so far, each once, in playlist order,
\* whatever the earlier downloads and fetches did.
EveryValidTrackCalledOnceInOrder ==
    LET made == PlaylistCalls IN
    /\ {made[k] : k \in 1..Len(made)} =
         {c \in (1..MaxPlaylists) \X (1..MaxItems) :
             ValidTrack(c[1], c[2]) /\ Passed(c[1], c[2])}
    /\ \A j, k \in 1..Len(made) :
         j < k => \/ made[j][1] < made[k][1]
                  \/ made[j][1] = made[k][1] /\ made[j][2] < made[k][2]

\* C27 (as stated): every valid track of every valid selected playlist gets
\* exactly one download_track call, in playlist order, whatever the other
\* downloads and fetches did, and process_downloads never ends without
\* having logged the final 'Download processing finished' message.
C27_AllTracksTriedAndFinishLogged ==
    /\ EveryValidTrackCalledOnceInOrder
    /\ pd_pc # "raised"

\* action_start_download is awaiting process_downloads
Downloading == pump = "download"

\* The part of C30 about the end of a download: the `finally:` of
\* action_start_download enables both buttons, also after an exception.
ButtonsEnabledWhenDownloadEnds ==
    [][(Downloading /\ ~Downloading') =>
          (~btn_download_disabled' /\ ~btn_refresh_disabled')]_vars

\* C30 (as stated): for the whole duration of a download the Start Download
\* and the Refresh button are disabled, whatever events arrive meanwhile
\* (checkbox changes, the completion of a refresh).
C30_ButtonsDisabledDuringDownload ==
    Downloading => (btn_download_disabled /\ btn_refresh_disabled)

====
